---- MODULE Spec2Model ----
(***************************************************************************)
(* Model of the camview capture core (src/src/camera.cpp, camera.h) and of *)
(* the way its caller drives it (src/src/main.cpp).                        *)
(*                                                                         *)
(* The process side (device object, params, caller image, position inside  *)
(* get_frame) is translated from the code.  The kernel side (which buffers *)
(* are mapped, which are on the capture queue, which are filled) is the    *)
(* environment the v4l2_* calls act on.  Timestamps (image.sec/nsec) are   *)
(* copied next to the sequence number and are not modelled.                *)
(***************************************************************************)
EXTENDS Integers, Sequences, FiniteSets, TLC

\* ---------------------------------------------------------------- bounds
\* Largest buffer count the device may answer to VIDIOC_REQBUFS.
MaxGranted == 3
\* Number of frames the device stamps before the model stops filling.
MaxSeq == 3

\* ------------------------------------------------------ program constants
BUFFERS_CNT == 2
NULL == 0
MAP_FAILED == -1
\* Widths of uint8_t (frame.bufcnt, params.fps) and uint16_t (frame.w, frame.h).
UINT8 == 256
UINT16 == 65536

\* Frame sizes the device may answer (and the caller may hint).
Sizes == {[w |-> 640, h |-> 480], [w |-> 1920, h |-> 1080]}
\* Pixel-format tokens: only compared for equality.
Fmts == {"RGB24", "MJPEG"}
\* Frame rates the caller may request.
FpsHints == {30}
\* Frame-interval denominators the device may answer to VIDIOC_S_PARM.
FpsAnswers == {30, 15, 271}

\* Steps of create_stream that can fail, in program order.
Steps ==
  {"nopath", "stat", "notchr", "open", "s_fmt", "reqbufs", "calloc",
   "querybuf", "mmap", "qbuf", "s_parm"}
\* Steps that fail at one buffer index.
PerBuffer == {"querybuf", "mmap", "qbuf"}

\* Address v4l2_mmap returns for buffer i: non-null, distinct per buffer.
MapAddr(i) == i + 1
\* Length VIDIOC_QUERYBUF reports for every buffer.
BufLength == 614400
\* bytesused values the device may report for a filled buffer.
BytesUsed == {0, BufLength}

\* struct buffer_view
BufferView(d, s) == [data |-> d, size |-> s]
\* struct v4l2_buffer, the fields the program reads
V4l2Buffer(i, b, s) == [index |-> i, bytesused |-> b, sequence |-> s]
\* struct image, without the timestamp
Image(id, w, h, d, b) == [id |-> id, w |-> w, h |-> h, data |-> d, bytes |-> b]

VARIABLES
  phase,      \* "none" | "failed" | "live" | "destroyed": create_stream's result
  fdOpen,     \* the device handle is open
  mapped,     \* indices of the buffers currently mapped into the process
  frame,      \* dev.frame: [w, h, bufcnt, buf]
  buf,        \* dev.buf: the v4l2_buffer of the device object
  p,          \* the caller's struct params
  granted,    \* the count the device answered to VIDIOC_REQBUFS
  inq,        \* kernel: buffers on the capture queue, waiting to be filled
  doneq,      \* kernel: filled buffers ready to dequeue: <<index, bytesused, sequence>>
  streaming,  \* kernel: VIDIOC_STREAMON took effect
  seq,        \* kernel: next sequence number
  pc,         \* "idle" | "poll": position of the caller inside get_frame
  pollRes,    \* inside get_frame: how the last poll that did not end the call went
  img,        \* the caller's struct image handed to get_frame
  ret,        \* what get_frame returned, if it was the last call: "true" | "false"
  lastGet,    \* how get_frame ended, if it was the last call
  lastCall,   \* "none" | "get" | "put": last of get_frame/put_frame called
  putRes,     \* what put_frame did, if it was the last call
  failedStep, \* the step of create_stream that failed, "none" if none did
  log,        \* calls the device destructor made, in order
  answered,   \* the device's answers to VIDIOC_S_FMT and VIDIOC_S_PARM: [size, fmt, den]
  draw,       \* draw_image: [at, path, gets, puts], position and calls made
  io          \* dev_ioctl: [at, req, script, issued, rc], one call of it

vars ==
  <<phase, fdOpen, mapped, frame, buf, p, granted, inq, doneq, streaming, seq,
    pc, pollRes, img, ret, lastGet, lastCall, putRes, failedStep, log,
    answered, draw, io>>

kernel == <<inq, doneq, streaming, seq>>
object == <<phase, fdOpen, mapped, frame, p, granted, failedStep, log, answered>>
caller == <<img, ret, lastGet>>

\* Elements of a sequence.
Range(s) == {s[i] : i \in 1..Len(s)}

\* ------------------------------------------------------------ dev_ioctl
\* Largest number of times in a row v4l2_ioctl fails with EINTR or EAGAIN.
MaxTransient == 3

\* What one v4l2_ioctl call gives: rc >= 0, or rc = -1 with this errno.
Outcomes == {"ok", "EINTR", "EAGAIN", "EINVAL"}

\* The requests the program issues through dev_ioctl.
Requests == {"VIDIOC_S_FMT", "VIDIOC_QBUF", "VIDIOC_DQBUF"}

\* dev_ioctl not running.
IoIdle == [at |-> "idle", req |-> "none", issued |-> <<>>, rc |-> "none"]

\* The loop condition with the EAGAIN test left out.
Transient_EintrOnly(o) == o = "EINTR"

\* rc == -1 && (errno == EINTR || errno == EAGAIN): the loop condition.
Transient(o) == o \in {"EINTR", "EAGAIN"}

\* dev_ioctl is called with request r.
DevIoctlCall ==
  /\ io.at = "idle"
  /\ \E r \in Requests : io' = [at |-> "do", req |-> r, issued |-> <<>>, rc |-> "none"]
  /\ UNCHANGED <<object, kernel, caller, buf, pc, pollRes, lastCall, putRes, draw>>

\* One pass of the do-while: v4l2_ioctl is issued and gives outcome o; the
\* loop goes on if o is transient, else dev_ioctl returns (rc < 0 ? false :
\* true).  After MaxTransient transient failures the device gives another
\* outcome.
DevIoctlIssue ==
  /\ io.at = "do"
  /\ \E o \in Outcomes :
       /\ Len(io.issued) >= MaxTransient => o \notin {"EINTR", "EAGAIN"}
       /\ io' = [io EXCEPT !.issued = Append(@, o),
                           !.at = IF Transient(o) THEN "do" ELSE "returned",
                           !.rc = IF Transient(o) THEN "none"
                                  ELSE IF o = "ok" THEN "true" ELSE "false"]
  /\ UNCHANGED <<object, kernel, caller, buf, pc, pollRes, lastCall, putRes, draw>>

\* ------------------------------------------------------- create_stream
\* The caller's params before create_stream: the hints.
Params == [w : {s.w : s \in Sizes}, h : {s.h : s \in Sizes}, fps : FpsHints, fmt : Fmts]

\* Values an uninitialized dev.buf (device::device sets only fd) may hold.
GarbageBufs == {V4l2Buffer(0, 0, 0), V4l2Buffer(0, BufLength, 0)}
\* Values an uninitialized frame.bufcnt may hold.
GarbageCounts == {0, UINT8 - 1}

\* What the environment does during one create_stream: the step that fails
\* (fail, at buffer index k for a per-buffer step) and the device's answers
\* (size and fmt to S_FMT, count to REQBUFS, den to S_PARM), and the
\* indeterminate contents of the new device object (gbuf, gcnt).
Scenarios ==
  {sc \in [fail : Steps \cup {"none"}, k : 0..(MaxGranted - 1), size : Sizes,
           fmt : Fmts, count : 0..MaxGranted, den : FpsAnswers,
           gbuf : GarbageBufs, gcnt : GarbageCounts] :
     IF sc.fail \in PerBuffer THEN sc.k < sc.count ELSE sc.k = 0}

\* open_camera without the S_ISCHR test.
OpenCamera_NoChrCheck(sc) == sc.fail \notin {"stat", "open"}

\* open_camera: TRUE when it returns a handle, FALSE when it returns -1.
OpenCamera(sc) == sc.fail \notin {"stat", "notchr", "open"}

\* set_framerate giving back the rate it was asked for.
SetFramerate_Requested(fps, sc) == fps

\* set_framerate: 0 when VIDIOC_S_PARM fails, else the denominator the
\* device returned, converted to the uint8_t return type.
SetFramerate(fps, sc) == IF sc.fail = "s_parm" THEN 0 ELSE sc.den % UINT8

\* req.count left at the requested value, the device's answer ignored.
ReqCount_Requested(sc) == BUFFERS_CNT

\* req.count after a successful VIDIOC_REQBUFS: the device's answer.
ReqCount(sc) == sc.count

\* The device answered nothing (requests not issued, or failed).
NoAnswer == [size |-> [w |-> 0, h |-> 0], fmt |-> "none", den |-> 0]

\* fmt.fmt.pix as the device returned it from VIDIOC_S_FMT, and
\* timeperframe.denominator as it returned it from VIDIOC_S_PARM when
\* init_stream got as far as set_framerate (reached).
Answer(sc, reached) ==
  IF sc.fail = "s_fmt" THEN NoAnswer
  ELSE [size |-> sc.size, fmt |-> sc.fmt,
        den |-> IF reached /\ sc.fail # "s_parm" THEN sc.den ELSE 0]

\* init_stream going on whatever pixel format the device returned.
FormatAccepted_Any(par, sc) == TRUE

\* The test fmt.fmt.pix.pixelformat != p->fmt of init_stream, negated.
FormatAccepted(par, sc) == sc.fmt = par.fmt

\* calloc(req.count, ...): every buffer_view zeroed.
Calloc(n) == [i \in 1..n |-> BufferView(NULL, 0)]

\* The QUERYBUF/mmap loop counting a buffer before it tests its mapping.
RECURSIVE MapLoop_CountFirst(_, _, _)
MapLoop_CountFirst(st, count, sc) ==
  LET i == st.frame.bufcnt IN
  IF ~(i < count) THEN st
  ELSE IF sc.fail = "querybuf" /\ sc.k = i THEN [st EXCEPT !.ok = FALSE]
  ELSE
    LET failed == sc.fail = "mmap" /\ sc.k = i
        data == IF failed THEN MAP_FAILED ELSE MapAddr(i)
        st1 == [st EXCEPT !.frame.buf[i + 1] = BufferView(data, BufLength),
                          !.frame.bufcnt = (i + 1) % UINT8,
                          !.mapped = IF failed THEN @ ELSE @ \cup {i}]
    IN IF failed THEN [st1 EXCEPT !.ok = FALSE]
       ELSE MapLoop_CountFirst(st1, count, sc)

\* The QUERYBUF/mmap loop of init_stream; st = [ok, frame, mapped], with
\* frame.bufcnt the loop variable.  Slot i of the array is st.frame.buf[i+1].
RECURSIVE MapLoop(_, _, _)
MapLoop(st, count, sc) ==
  LET i == st.frame.bufcnt IN
  IF ~(i < count) THEN st
  ELSE IF sc.fail = "querybuf" /\ sc.k = i THEN [st EXCEPT !.ok = FALSE]
  ELSE
    LET failed == sc.fail = "mmap" /\ sc.k = i
        data == IF failed THEN MAP_FAILED ELSE MapAddr(i)
        st1 == [st EXCEPT !.frame.buf[i + 1] = BufferView(data, BufLength),
                          !.mapped = IF failed THEN @ ELSE @ \cup {i}]
    IN IF failed THEN [st1 EXCEPT !.ok = FALSE]
       ELSE MapLoop([st1 EXCEPT !.frame.bufcnt = (i + 1) % UINT8], count, sc)

\* The QBUF loop starting at slot 1.
RECURSIVE EnqueueLoop_SkipFirst(_, _, _, _)
EnqueueLoop_SkipFirst(st, i, bufcnt, sc) ==
  IF ~(i < bufcnt) THEN st
  ELSE IF sc.fail = "qbuf" /\ sc.k = i THEN [st EXCEPT !.ok = FALSE]
  ELSE EnqueueLoop_SkipFirst([st EXCEPT !.inq = IF i = 0 THEN @ ELSE Append(@, i)],
                             (i + 1) % UINT8, bufcnt, sc)

\* The QBUF loop of init_stream; st = [ok, inq], i the loop variable.
RECURSIVE EnqueueLoop(_, _, _, _)
EnqueueLoop(st, i, bufcnt, sc) ==
  IF ~(i < bufcnt) THEN st
  ELSE IF sc.fail = "qbuf" /\ sc.k = i THEN [st EXCEPT !.ok = FALSE]
  ELSE EnqueueLoop([st EXCEPT !.inq = Append(@, i)], (i + 1) % UINT8, bufcnt, sc)

\* init_stream on a new device object: [ok, frame, p, mapped, inq, req].
\* req is TRUE once VIDIOC_REQBUFS succeeded (the kernel allocated buffers).
InitStream(par, sc) ==
  LET fr0 == [w |-> 0, h |-> 0, bufcnt |-> sc.gcnt, buf |-> <<>>]
      Res(ok, fr, pp, m, q, r) ==
        [ok |-> ok, frame |-> fr, p |-> pp, mapped |-> m, inq |-> q, req |-> r]
  IN
  IF sc.fail = "s_fmt" THEN Res(FALSE, fr0, par, {}, <<>>, FALSE)
  ELSE IF ~FormatAccepted(par, sc) THEN Res(FALSE, fr0, par, {}, <<>>, FALSE)
  ELSE
    LET fr1 == [fr0 EXCEPT !.w = sc.size.w % UINT16, !.h = sc.size.h % UINT16]
        p1 == [par EXCEPT !.w = fr1.w, !.h = fr1.h]
    IN
    IF sc.fail = "reqbufs" THEN Res(FALSE, fr1, p1, {}, <<>>, FALSE)
    ELSE IF sc.fail = "calloc" THEN Res(FALSE, fr1, p1, {}, <<>>, TRUE)
    ELSE
      LET fr2 == [fr1 EXCEPT !.buf = Calloc(ReqCount(sc)), !.bufcnt = 0]
          m == MapLoop([ok |-> TRUE, frame |-> fr2, mapped |-> {}], ReqCount(sc), sc)
      IN
      IF ~m.ok THEN Res(FALSE, m.frame, p1, m.mapped, <<>>, TRUE)
      ELSE
        LET q == EnqueueLoop([ok |-> TRUE, inq |-> <<>>], 0, m.frame.bufcnt, sc) IN
        IF ~q.ok THEN Res(FALSE, m.frame, p1, m.mapped, q.inq, TRUE)
        ELSE Res(TRUE, m.frame, [p1 EXCEPT !.fps = SetFramerate(p1.fps, sc)],
                 m.mapped, q.inq, TRUE)

\* The step at which create_stream gave up (or that failed unnoticed):
\* "fmt" is the pixel-format mismatch.
FirstFailure(par, sc) ==
  IF sc.fail \in {"nopath", "stat", "notchr", "open", "s_fmt"} THEN sc.fail
  ELSE IF sc.fmt # par.fmt THEN "fmt"
  ELSE sc.fail

Init ==
  /\ phase = "none"
  /\ fdOpen = FALSE
  /\ mapped = {}
  /\ frame = [w |-> 0, h |-> 0, bufcnt |-> 0, buf |-> <<>>]
  /\ buf = V4l2Buffer(0, 0, 0)
  /\ p \in Params
  /\ granted = 0
  /\ inq = <<>>
  /\ doneq = <<>>
  /\ streaming = FALSE
  /\ seq = 0
  /\ pc = "idle"
  /\ pollRes = "none"
  /\ img = Image(0, 0, 0, NULL, 0)
  /\ ret = "none"
  /\ lastGet = "none"
  /\ lastCall = "none"
  /\ putRes = "none"
  /\ failedStep = "none"
  /\ log = <<>>
  /\ answered = NoAnswer
  /\ draw = [at |-> "idle", path |-> "none", gets |-> 0, puts |-> 0]
  /\ io = IoIdle

\* create_stream(path, &p).  On a failure of init_stream the function
\* returns nullptr without deleting the device object it allocated, so the
\* handle and the mappings stay as init_stream left them.
CreateStream ==
  /\ phase = "none"
  /\ \E sc \in Scenarios :
       /\ failedStep' = FirstFailure(p, sc)
       /\ IF sc.fail = "nopath" \/ ~OpenCamera(sc)
          THEN /\ phase' = "failed"
               /\ answered' = NoAnswer
               /\ UNCHANGED <<fdOpen, mapped, frame, buf, p, granted, inq>>
          ELSE LET r == InitStream(p, sc) IN
               /\ phase' = IF r.ok THEN "live" ELSE "failed"
               /\ fdOpen' = TRUE
               /\ mapped' = r.mapped
               /\ frame' = r.frame
               /\ buf' = sc.gbuf
               /\ p' = r.p
               /\ granted' = IF r.req THEN sc.count ELSE 0
               /\ inq' = r.inq
               /\ answered' = Answer(sc, r.ok)
  /\ UNCHANGED <<doneq, streaming, seq, pc, pollRes, log>>
  /\ UNCHANGED <<caller, lastCall, putRes, draw, io>>


\* ------------------------------------------------------------ the stream
\* Buffers the kernel allocated that are neither waiting to be filled nor
\* ready to dequeue: dequeued by the program and not re-queued.
Dequeued == (0..(granted - 1)) \ (Range(inq) \cup {d[1] : d \in Range(doneq)})

\* stream::get_frame_size
GetFrameSize == <<frame.w, frame.h>>

\* The value get_frame returns: !!out.bytes
Truth(bytes) == IF bytes # 0 THEN "true" ELSE "false"

\* stream::start: VIDIOC_STREAMON, which the device accepts (ok) or not.
Start ==
  /\ phase = "live" /\ pc = "idle"
  /\ \E ok \in BOOLEAN : streaming' = (streaming \/ ok)
  /\ UNCHANGED <<inq, doneq, seq, pc, pollRes, buf, lastCall, putRes>>
  /\ UNCHANGED <<object, caller, draw, io>>

\* The device fills the buffer at the head of the capture queue and stamps
\* it with the next sequence number; it may report any bytesused.
DeviceFill ==
  /\ phase = "live" /\ streaming /\ inq # <<>> /\ seq < MaxSeq
  /\ \E b \in BytesUsed : doneq' = Append(doneq, <<Head(inq), b, seq>>)
  /\ inq' = Tail(inq)
  /\ seq' = seq + 1
  /\ UNCHANGED <<streaming, pc, pollRes, buf, lastCall, putRes>>
  /\ UNCHANGED <<object, caller, draw, io>>

\* Contents a caller's uninitialized struct image may have (draw_image
\* declares a new one for every call): all zero, or nothing zero.
GarbageImages == {Image(0, 0, 0, NULL, 0), Image(MaxSeq, 1, 1, MAP_FAILED, 1)}

\* get_frame entered without clearing dev_.buf.bytesused.
Invalidate_Skipped(b) == b

\* dev_.buf.bytesused = 0: invalidate for the put_frame call.
Invalidate(b) == [b EXCEPT !.bytesused = 0]

\* get_frame up to the poll loop: the caller hands in the image it used
\* before or a new uninitialized one; dev_.buf.bytesused is cleared.
GetFrameBegin ==
  /\ phase = "live" /\ pc = "idle"
  /\ \/ img' = img
     \/ img' \in GarbageImages
  /\ buf' = Invalidate(buf)
  /\ pc' = "poll"
  /\ pollRes' = "none"
  /\ ret' = "none"
  /\ lastGet' = "none"
  /\ putRes' = "none"
  /\ lastCall' = "get"
  /\ UNCHANGED <<kernel, io>>
  /\ UNCHANGED object

\* get_frame returns r, having ended the way `how` says.
Return(r, how) ==
  /\ pc' = "idle"
  /\ pollRes' = "none"
  /\ ret' = r
  /\ lastGet' = how
  /\ UNCHANGED <<lastCall, putRes, draw, io>>
  /\ UNCHANGED object

\* poll returns 0: break, then return !!out.bytes with out untouched.
PollTimeout ==
  /\ pc = "poll" /\ doneq = <<>>
  /\ img' = img
  /\ Return(Truth(img.bytes), "timeout")
  /\ UNCHANGED <<buf, kernel>>

\* poll returns -1 with EINTR: continue.
PollEintr ==
  /\ pc = "poll"
  /\ pollRes' = "eintr"
  /\ UNCHANGED <<pc, buf, img, ret, lastGet, lastCall, putRes>>
  /\ UNCHANGED <<kernel, object, draw, io>>

\* poll returns -1 with another errno: return false.
PollFail ==
  /\ pc = "poll"
  /\ img' = img
  /\ Return("false", "pollfail")
  /\ UNCHANGED <<buf, kernel>>

\* poll returns > 0 without POLLIN in revents: continue.
PollNoPollin ==
  /\ pc = "poll" /\ doneq = <<>>
  /\ pollRes' = "revents"
  /\ UNCHANGED <<pc, buf, img, ret, lastGet, lastCall, putRes>>
  /\ UNCHANGED <<kernel, object, draw, io>>

\* out.data taken from slot 0 whatever index the device reported.
SlotData_First(fr, b) == fr.buf[1].data

\* out.data = dev_.frame.buf[dev_.buf.index].data
SlotData(fr, b) == fr.buf[b.index + 1].data

\* poll reports POLLIN: memset dev_.buf, then VIDIOC_DQBUF, which fails or
\* hands over the oldest filled buffer; the image is built from it.
PollDequeue ==
  /\ pc = "poll" /\ doneq # <<>>
  /\ \/ /\ buf' = V4l2Buffer(0, 0, 0)
        /\ img' = img
        /\ Return("false", "dqfail")
        /\ UNCHANGED kernel
     \/ LET d == Head(doneq) IN
        /\ buf' = V4l2Buffer(d[1], d[2], d[3])
        /\ doneq' = Tail(doneq)
        /\ img' = Image(buf'.sequence, frame.w, frame.h,
                        SlotData(frame, buf'), buf'.bytesused)
        /\ Return(Truth(img'.bytes), "dq")
        /\ UNCHANGED <<inq, streaming, seq>>

\* stream::put_frame: VIDIOC_QBUF of dev_.buf when its bytesused is not 0.
\* The device takes a buffer only if the program holds it ("qbuf_stale" if it
\* does not) and the request does not fail otherwise (ok).  VIDIOC_QBUF is a
\* read-write request: a driver that took the buffer may write the struct
\* back with bytesused cleared (wb).
PutFrame ==
  /\ phase = "live" /\ pc = "idle"
  /\ lastCall' = "put"
  /\ ret' = "none"
  /\ lastGet' = "none"
  /\ IF buf.bytesused # 0
     THEN IF buf.index \in Dequeued
          THEN \E ok \in BOOLEAN, wb \in BOOLEAN :
                 IF ok
                 THEN /\ inq' = Append(inq, buf.index)
                      /\ buf' = IF wb THEN [buf EXCEPT !.bytesused = 0] ELSE buf
                      /\ putRes' = "qbuf_ok"
                 ELSE /\ UNCHANGED <<inq, buf>>
                      /\ putRes' = "qbuf_fail"
          ELSE /\ putRes' = "qbuf_stale"
               /\ UNCHANGED <<inq, buf>>
     ELSE /\ putRes' = "noop"
          /\ UNCHANGED <<inq, buf>>
  /\ UNCHANGED <<doneq, streaming, seq, pc, pollRes, img, io>>
  /\ UNCHANGED object

\* What put_frame gives its caller: the function is void, whatever VIDIOC_QBUF
\* did.
PutFrameResult(res) == "void"

\* device::~device with the unmap loop starting at slot 1.
DeviceDtor_SkipFirst(fr) ==
  [i \in 1..(fr.bufcnt - 1) |-> <<"munmap", i>>] \o <<<<"close", 0>>>>

\* device::~device: the calls it makes, in order.
DeviceDtor(fr) ==
  [i \in 1..fr.bufcnt |-> <<"munmap", i - 1>>] \o <<<<"close", 0>>>>

\* Mappings left after the calls of `calls`.
Unmap(m, calls) == m \ {c[2] : c \in {x \in Range(calls) : x[1] = "munmap"}}

\* The unique_ptr returned by create_stream is reset: stream::~stream deletes
\* the device.  (The stream object create_stream allocated with new and copied
\* from is never deleted, so this is the only destructor that runs.)  The
\* device object is gone afterwards; the kernel variables keep what they were
\* at teardown.
Destroy ==
  /\ phase = "live" /\ pc = "idle"
  /\ phase' = "destroyed"
  /\ log' = log \o DeviceDtor(frame)
  /\ mapped' = Unmap(mapped, DeviceDtor(frame))
  /\ fdOpen' = FALSE
  /\ frame' = [w |-> 0, h |-> 0, bufcnt |-> 0, buf |-> <<>>]
  /\ buf' = V4l2Buffer(0, 0, 0)
  /\ ret' = "none"
  /\ lastGet' = "none"
  /\ putRes' = "none"
  /\ lastCall' = "none"
  /\ UNCHANGED <<p, granted, failedStep, answered, pc, pollRes, img, draw, io>>
  /\ UNCHANGED kernel

\* get_frame and put_frame called by any caller, in any order.
CallGetFrame == GetFrameBegin /\ UNCHANGED draw
CallPutFrame == PutFrame /\ UNCHANGED draw

Next ==
  \/ CreateStream
  \/ Start
  \/ DeviceFill
  \/ CallGetFrame
  \/ PollTimeout
  \/ PollEintr
  \/ PollFail
  \/ PollNoPollin
  \/ PollDequeue
  \/ CallPutFrame
  \/ Destroy

Spec == Init /\ [][Next]_vars

\* dev_ioctl alone, called once.
NextIoctl ==
  \/ DevIoctlCall
  \/ DevIoctlIssue

\* Every v4l2_ioctl call returns: the loop is never stuck inside the call.
SpecIoctl == Init /\ [][NextIoctl]_vars /\ WF_vars(DevIoctlIssue)

\* A caller that calls put_frame exactly once after every get_frame.
PairedGetFrameBegin == lastCall # "get" /\ CallGetFrame
PairedPutFrame == lastCall = "get" /\ CallPutFrame

NextPaired ==
  \/ CreateStream
  \/ Start
  \/ DeviceFill
  \/ PairedGetFrameBegin
  \/ PollTimeout
  \/ PollEintr
  \/ PollFail
  \/ PollNoPollin
  \/ PollDequeue
  \/ PairedPutFrame
  \/ Destroy

SpecPaired == Init /\ [][NextPaired]_vars

\* ------------------------------------------------------------ draw_image
\* The way draw_image takes after get_frame: decompress_image fails for an
\* MJPEG stream (dec is its result), or the buffer has no data or no width or
\* height, or the frame is drawn.  A decompressed buffer has data and a size.
DrawPath(fmt, im, dec) ==
  IF fmt = "MJPEG"
  THEN IF ~dec THEN "decompress_failed" ELSE "drawn"
  ELSE IF im.data = NULL \/ im.w = 0 \/ im.h = 0 THEN "no_data" ELSE "drawn"

\* draw_image returning at once when decompression fails.
GotoOut_ReturnOnFailure(path) == path # "decompress_failed"

\* Every way through draw_image ends at the label out (goto out, or falling
\* through to it).
GotoOut(path) == TRUE

\* draw_image up to and including its call of get_frame.
DrawImageGetFrame ==
  /\ draw.at \in {"idle", "returned"}
  /\ GetFrameBegin
  /\ draw' = [at |-> "get_frame", path |-> "none", gets |-> 1, puts |-> 0]

\* get_frame has returned (its result is not looked at): the branch.
DrawImageBranch ==
  /\ draw.at = "get_frame" /\ pc = "idle"
  /\ \E dec \in BOOLEAN :
       draw' = [draw EXCEPT !.at = "branched", !.path = DrawPath(p.fmt, img, dec)]
  /\ UNCHANGED <<object, kernel, caller, buf, pc, pollRes, lastCall, putRes, io>>

\* The rest of draw_image: the label out with its put_frame, and the return.
DrawImageOut ==
  /\ draw.at = "branched"
  /\ IF GotoOut(draw.path)
     THEN /\ PutFrame
          /\ draw' = [draw EXCEPT !.at = "returned", !.puts = @ + 1]
     ELSE /\ draw' = [draw EXCEPT !.at = "returned"]
          /\ UNCHANGED <<object, kernel, caller, buf, pc, pollRes, lastCall, putRes, io>>

\* main leaves its loop between two calls of draw_image and the stream goes.
DrawDestroy == draw.at # "get_frame" /\ draw.at # "branched" /\ Destroy

NextDraw ==
  \/ CreateStream
  \/ Start
  \/ DeviceFill
  \/ DrawImageGetFrame
  \/ PollTimeout
  \/ PollEintr
  \/ PollFail
  \/ PollNoPollin
  \/ PollDequeue
  \/ DrawImageBranch
  \/ DrawImageOut
  \/ DrawDestroy

\* The stream driven by main's loop: draw_image over and over.
SpecDraw == Init /\ [][NextDraw]_vars

\* ---------------------------------------------------------------- claims
\* The image holds a frame of this stream: its data points at a mapping.
Filled(im) == im.data \in {MapAddr(i) : i \in 0..(granted - 1)}

\* A stream on which every step of create_stream succeeded and the device
\* answered the requested buffer count.
Nominal == phase = "live" /\ failedStep = "none" /\ granted = BUFFERS_CNT

\* Steps after the open whose failure makes create_stream return none.
AfterOpen == {"s_fmt", "fmt", "reqbufs", "calloc", "querybuf", "mmap", "qbuf"}

\* C1: when create_stream returned none because a step after the open of the
\* device failed, the handle is closed and no buffer is mapped.
C1_ReleasedOnFailure ==
  (phase = "failed" /\ failedStep \in AfterOpen) => (~fdOpen /\ mapped = {})

\* C2: a get_frame whose poll timed out returns false, also when the image
\* handed in holds a frame an earlier get_frame put there (and that frame's
\* buffer was returned).
C2_TimeoutReturnsFalse ==
  (Nominal /\ lastGet = "timeout" /\ Filled(img) /\ Dequeued = {}) => ret = "false"

\* C3: at most one buffer of the pool is dequeued and not yet re-queued.
C3_AtMostOneDequeued == Nominal => Cardinality(Dequeued) <= 1

\* C4: for a caller that pairs every get_frame with one put_frame, no buffer
\* is left dequeued after a put_frame whose enqueue, if any, did not fail.
C4_NothingLeftDequeued ==
  (Nominal /\ lastCall = "put" /\ putRes # "qbuf_fail") => Dequeued = {}

\* C5: a put_frame that directly follows a put_frame which re-queued the
\* buffer issues no enqueue.
C5_EnqueueOnlyPending ==
  [][(Nominal /\ lastCall = "put" /\ putRes = "qbuf_ok") => putRes' # "qbuf_stale"]_vars

\* C6: destroying a live stream unmaps every mapped buffer exactly once, then
\* closes the handle exactly once, and nothing stays mapped or open.
C6_TeardownOnce ==
  [][(phase = "live" /\ phase' = "destroyed") =>
       LET n == Cardinality(mapped) IN
       /\ Len(log') = n + 1
       /\ \A i \in 1..n : log'[i][1] = "munmap"
       /\ {log'[i][2] : i \in 1..n} = mapped
       /\ log'[n + 1] = <<"close", 0>>
       /\ mapped' = {}
       /\ ~fdOpen']_vars

\* C6 witness: a stream torn down while streaming, with a buffer borrowed and
\* at least two buffers unmapped.
C6_Witness ==
  /\ phase = "destroyed"
  /\ streaming
  /\ Dequeued # {}
  /\ Len(log) >= BUFFERS_CNT + 1

\* C7 as stated: after a successful create_stream exactly 2 buffers are mapped
\* and the recorded count is 2, whatever count the device answered.
C7_ExactlyTwo ==
  phase = "live" => (frame.bufcnt = BUFFERS_CNT /\ Cardinality(mapped) = BUFFERS_CNT)

\* C7 amended: after a successful create_stream the recorded count is the
\* count the device answered, and exactly the buffers 0..count-1 are mapped.
C7_AsGranted ==
  phase = "live" =>
    /\ frame.bufcnt = granted
    /\ Len(frame.buf) = granted
    /\ mapped = 0..(granted - 1)
    /\ \A i \in mapped : frame.buf[i + 1] = BufferView(MapAddr(i), BufLength)

\* C7 witness: a stream created on a device that answered another count than
\* the 2 requested.
C7_Witness ==
  /\ phase = "live"
  /\ granted # BUFFERS_CNT
  /\ granted > 0
  /\ frame.bufcnt = granted

\* C8 as stated: create_stream returns a stream only if no step failed, the
\* framerate request included.
C8_EveryFailureAborts == phase = "live" => failedStep = "none"

\* C8 amended: a failure of any step but the framerate request makes
\* create_stream return none; a failed framerate request leaves a stream
\* whose params.fps is 0.
C8_AllButFramerateAbort ==
  /\ phase \in {"live", "destroyed"} => failedStep \in {"none", "s_parm"}
  /\ (phase # "none" /\ failedStep \notin {"none", "s_parm"}) => phase = "failed"
  /\ (phase = "live" /\ failedStep = "s_parm") => p.fps = 0

\* C8 witness: a stream returned although the framerate request failed.
C8_Witness == phase = "live" /\ failedStep = "s_parm" /\ p.fps = 0

\* C9: for a caller that pairs get_frame and put_frame and reuses its image,
\* a get_frame that returns true delivers a sequence-id greater than the one
\* of the frame the image held before (a frame whose buffer was returned).
C9_StrictlyIncreasing ==
  [][(Nominal /\ pc = "poll" /\ pc' = "idle" /\ ret' = "true"
        /\ Filled(img) /\ img.bytes # 0 /\ Dequeued = {})
       => img'.id > img.id]_vars

\* C10: get_frame_size returns the negotiated size for the stream's lifetime,
\* and an image of a get_frame that returned true has that size.
C10_ImageHasFrameSize ==
  Nominal =>
    /\ GetFrameSize = <<p.w, p.h>>
    /\ ret = "true" => <<img.w, img.h>> = GetFrameSize

\* Ways get_frame ends without having dequeued a buffer.
NoDequeue == {"timeout", "pollfail", "dqfail"}

\* C11: after a get_frame that ended in a poll timeout, a poll failure or a
\* dequeue failure the marker dev_.buf.bytesused is 0, and a put_frame that
\* follows issues no enqueue and leaves the capture queue as it is.
C11_MarkerClear ==
  [][(lastGet \in NoDequeue) =>
       /\ buf.bytesused = 0
       /\ (lastCall' = "put" => (putRes' = "noop" /\ inq' = inq))]_vars

\* C11 witness: a get_frame timed out on an image that still holds the frame
\* of an earlier successful get_frame, whose buffer was not returned, and the
\* marker is clear.
C11_Witness ==
  /\ lastGet = "timeout"
  /\ Filled(img)
  /\ img.bytes # 0
  /\ Dequeued # {}
  /\ buf.bytesused = 0

\* C12: every poll cycle of get_frame that was not interrupted ends the call
\* (timeout, poll failure) or goes on to the dequeue: get_frame is never back
\* in its loop after a poll that returned ready without POLLIN.
C12_PollCycleEnds == pc = "poll" => pollRes # "revents"

\* C13: create_stream returns none when the device answered VIDIOC_S_FMT with
\* another pixel format than the requested one; while the stream lives,
\* params.w/h and get_frame_size are the width and height the device
\* answered, and no step changes params.fmt.
C13_NegotiatedFormat ==
  [][/\ (phase = "none" /\ answered'.fmt \notin {"none", p.fmt}) => phase' = "failed"
     /\ phase' = "live" =>
          /\ <<p'.w, p'.h>> = <<answered'.size.w, answered'.size.h>>
          /\ GetFrameSize' = <<answered'.size.w, answered'.size.h>>
          /\ p'.fmt = p.fmt]_vars

\* C13 witness: a stream whose device answered the requested pixel format,
\* with frames already delivered at the answered size.
C13_Witness ==
  /\ phase = "live"
  /\ answered.fmt = p.fmt
  /\ answered.size \in Sizes
  /\ ret = "true"
  /\ <<img.w, img.h>> = <<answered.size.w, answered.size.h>>

\* C14: a get_frame whose VIDIOC_DQBUF failed returns false, and a put_frame
\* whose VIDIOC_QBUF failed gives its caller a failure outcome.
C14_FailuresReported ==
  /\ lastGet = "dqfail" => ret = "false"
  /\ (Nominal /\ putRes = "qbuf_fail") => PutFrameResult(putRes) = "failed"

\* C15: in every execution of draw_image get_frame is called once, then
\* put_frame once: while the execution is past get_frame the stream's last
\* call is that get_frame and no put_frame was made, and when it has returned
\* one get_frame and one put_frame were made, the put_frame last.
C15_OneGetOnePut ==
  /\ draw.at = "idle" => (draw.gets = 0 /\ draw.puts = 0)
  /\ draw.at \in {"get_frame", "branched"} =>
       (draw.gets = 1 /\ draw.puts = 0 /\ lastCall = "get")
  /\ draw.at = "returned" =>
       (draw.gets = 1 /\ draw.puts = 1 /\ (phase = "live" => lastCall = "put"))

\* C15 witness: draw_image returned the way of a failed decompression, having
\* called put_frame.
C15_Witness ==
  /\ draw.at = "returned"
  /\ draw.path = "decompress_failed"
  /\ draw.puts = 1
  /\ lastCall = "put"
  /\ phase = "live"

\* Steps of create_stream at or after the mapping loop of init_stream.
FromMapLoop == {"querybuf", "mmap", "qbuf", "s_parm", "none"}

\* C16: however the mapping loop of init_stream ended, frame.bufcnt is the
\* number of buffers mapped and slots 0..bufcnt-1 hold exactly the mappings;
\* a slot whose mmap failed holds MAP_FAILED and is not counted.
C16_CountIsMapped ==
  (phase \in {"live", "failed"} /\ failedStep \in FromMapLoop) =>
    /\ frame.bufcnt = Cardinality(mapped)
    /\ mapped = 0..(frame.bufcnt - 1)
    /\ \A i \in mapped : frame.buf[i + 1].data = MapAddr(i)
    /\ \A i \in 1..Len(frame.buf) :
         frame.buf[i].data = MAP_FAILED => (failedStep = "mmap" /\ i = frame.bufcnt + 1)

\* C16 witness: the mapping loop gave up at a buffer after the first, whose
\* mmap failed.
C16_Witness ==
  /\ phase = "failed"
  /\ failedStep = "mmap"
  /\ frame.bufcnt >= 1
  /\ frame.buf[frame.bufcnt + 1].data = MAP_FAILED
  /\ Cardinality(mapped) = frame.bufcnt

\* C17: dev_ioctl issues the request again exactly after an issue that failed
\* with EINTR or EAGAIN, returns true at the first issue that succeeds and
\* false at the first that fails otherwise, and returns in the end.
C17_RetryTransient ==
  /\ [][io.at = "do" =>
          LET o == io'.issued[Len(io'.issued)] IN
          /\ Len(io'.issued) = Len(io.issued) + 1
          /\ \A i \in 1..Len(io.issued) : io.issued[i] \in {"EINTR", "EAGAIN"}
          /\ (io'.at = "do") = (o \in {"EINTR", "EAGAIN"})
          /\ o = "ok" => (io'.at = "returned" /\ io'.rc = "true")
          /\ o = "EINVAL" => (io'.at = "returned" /\ io'.rc = "false")]_vars
  /\ [][io.at = "returned" => io' = io]_vars
  /\ (io.at = "do" ~> io.at = "returned")

\* C17 witness: dev_ioctl returned true after both transient errors.
C17_Witness ==
  /\ io.at = "returned"
  /\ io.rc = "true"
  /\ Len(io.issued) = 3
  /\ io.issued[1] = "EAGAIN"
  /\ io.issued[2] = "EINTR"

\* C18: a get_frame that dequeued a buffer with bytes in it hands out the
\* mapping of the slot the device reported, with the sequence number and the
\* byte count the device reported; the put_frame that follows issues
\* VIDIOC_QBUF for that slot, and the capture queue gains that slot or nothing.
C18_SameSlot ==
  [][/\ (pc = "poll" /\ lastGet' = "dq" /\ ret' = "true") =>
          LET d == Head(doneq) IN
          /\ img' = Image(d[3], frame.w, frame.h, MapAddr(d[1]), d[2])
          /\ buf'.index = d[1]
     /\ (lastGet = "dq" /\ ret = "true" /\ lastCall' = "put") =>
          /\ img.data = MapAddr(buf.index)
          /\ putRes' \in {"qbuf_ok", "qbuf_fail"}
          /\ inq' = IF putRes' = "qbuf_ok" THEN Append(inq, buf.index) ELSE inq]_vars

\* C18 witness: the frame in slot 1 was handed out and put_frame queued slot 1
\* again.
C18_Witness ==
  /\ lastCall = "put"
  /\ putRes = "qbuf_ok"
  /\ img.bytes # 0
  /\ img.data = MapAddr(1)
  /\ inq # <<>>
  /\ inq[Len(inq)] = 1
  /\ Dequeued = {}

\* C19: a create_stream that returns a stream leaves every mapped buffer on
\* the capture queue once, in index order, and none with the caller; nothing
\* is queued when the mapping loop gave up; a failed VIDIOC_QBUF makes
\* create_stream return none.
C19_AllQueuedInOrder ==
  [][phase = "none" =>
       /\ phase' = "live" =>
            /\ inq' = [i \in 1..frame'.bufcnt |-> i - 1]
            /\ Range(inq') = mapped'
            /\ Dequeued' = {}
       /\ failedStep' \in {"querybuf", "mmap"} => inq' = <<>>
       /\ failedStep' = "qbuf" => phase' = "failed"]_vars

\* C19 witness: a new stream, nothing called on it yet, with its buffers
\* queued in index order.
C19_Witness ==
  /\ phase = "live"
  /\ lastCall = "none"
  /\ ~streaming
  /\ Len(inq) >= BUFFERS_CNT
  /\ inq[1] = 0
  /\ inq[2] = 1
  /\ Dequeued = {}

\* C20: when VIDIOC_S_PARM succeeded create_stream returned a stream, and
\* params.fps is the denominator the device returned, modulo 256, whether it
\* is the requested rate or not.
C20_FpsAsReturned ==
  answered.den # 0 =>
    /\ phase \in {"live", "destroyed"}
    /\ p.fps = answered.den % UINT8

\* C20 witness: the device returned another denominator than requested, too
\* large for 8 bits.
C20_Witness ==
  /\ phase = "live"
  /\ answered.den >= UINT8
  /\ answered.den \notin FpsHints
  /\ p.fps = answered.den % UINT8
  /\ p.fps \notin FpsHints

====
